---- MODULE Spec2Model ----
(***************************************************************************)
(* Model of the LinkedIn job-application automation:                       *)
(*   - handle_application_process, the Easy Apply wizard state machine     *)
(*     (linkedin_enhanced.py and linkedin_easyapply.py, identical loops);  *)
(*   - apply_to_job and the orchestrator loops of both tools;              *)
(*   - JobMatcher.is_suitable_job / calculate_job_match_score;             *)
(*   - ResumeParser (skills, level, years) and the skill boost computed    *)
(*     from a parsed resume, on real strings;                              *)
(*   - get_all_job_listings, the per-card extraction of a results page;    *)
(*   - the same run started from the window, with its Stop button.         *)
(* Scores are exact integers in hundredths (0..100); similarity and skill  *)
(* boost are integers in tenths (0..10).                                   *)
(***************************************************************************)
EXTENDS Integers, Sequences, FiniteSets, TLC

(* ------------------------------ bounds --------------------------------- *)
\* most job cards one results page yields
MaxJobs == 3
\* largest max_applications a run is started with
MaxCap == 2
\* most negative max_applications a run is started with is 0 - MaxNegCap
MaxNegCap == 1
\* largest document height a page is measured with
MaxHeight == 3
\* most scrolls of one scroll_to_load_jobs call that are followed
MaxScrolls == 4
\* most runs started from one window
MaxRuns == 2
\* most log records one run emits
MaxRecords == 2
\* most Stop clicks followed between two Start clicks
MaxStops == 1

(* ------------------------- program constants --------------------------- *)
\* max_attempts in handle_application_process
max_attempts == 5

VARIABLES
  \* --- handle_application_process -------------------------------------
  wizard,      \* pages the driver renders at successive loop iterations;
               \* past its end the page is unconstrained
  hapState,    \* "idle" | "running" | "returned"
  attempt,     \* the local variable attempt
  iters,       \* loop iterations executed so far in this call
  clicks,      \* controls clicked so far in this call, in order
  sawSuccess,  \* the success indicator was located in the latest iteration
  hapResult,   \* return value of the call
  \* --- JobMatcher.is_suitable_job -------------------------------------
  query,       \* arguments of the call under study
  verdict,     \* what the call returned
  \* --- ResumeParser and get_all_job_listings as functions --------------
  text,        \* the text extracted from a resume document
  profile,     \* what analyze_resume_text made of it
  posting,     \* title and description of the job the profile is matched with
  corpus,      \* the documents calculate_job_match_score hands to fit_transform
  \* --- scroll_to_load_jobs as a procedure on its own -------------------
  scrollState, \* "idle" | "measured" | "returned"
  heights,     \* the document heights measured so far, in order
  last_height, \* the local variable last_height
  scrolls,     \* calls of window.scrollTo made
  \* --- the window, its worker threads and the logger -------------------
  start_button, \* state of the Start button: "normal" | "disabled"
  stop_button,  \* state of the Stop button
  workers,      \* per run started: "none" | "started" | "running" | "ended"
  runs,         \* runs started so far
  after_queue,  \* automation_finished callbacks scheduled with root.after
  handlers,     \* GUI handlers attached to the logger of the process
  log_queue,    \* the messages in self.log_queue
  log_text,     \* the lines of the log display
  emitted,      \* the log records the workers emitted, in order
  appended,     \* the worker messages check_log_queue has appended, in order
  cards,       \* the job cards of a results page
  listings,    \* what get_all_job_listings returned for them
  \* --- a run of the orchestrator --------------------------------------
  variant,            \* "enhanced" (run_enhanced_automation) | "basic"
  frontend,           \* "cli" (main of the tool) | "gui" (started from the window)
  is_running,         \* the flag of the window: set by Start, cleared by Stop
  events,             \* the run-level calls made so far, with their results
  pc,                 \* position of the run
  driver,             \* "none" | "open" | "quit"
  resume_path,        \* a resume path was configured
  resume_data,        \* a resume profile is loaded (resume_data is not None)
  min_match_score,    \* threshold, in hundredths
  max_applications,   \* the cap the run was started with
  all_jobs,           \* listings by card number: the job dicts
  job_links,          \* basic tool: the discovered links
  description_gets,   \* the urls get_job_description has navigated to
  easy_apply_jobs,    \* self.easy_apply_jobs
  non_easy_apply_jobs,\* self.non_easy_apply_jobs
  loop_jobs,          \* the list the per-job for loop iterates
  idx,                \* listings of loop_jobs the loop has finished with
  cur,                \* listing apply_to_job is working on, 0 when none
  applications_sent,  \* the local counter of the loop
  applied_jobs, failed_jobs, unsuitable_jobs, suitable_jobs,
  lastReturn,         \* what the latest apply_to_job call returned
  escaped,            \* an exception left apply_to_job
  apply_calls,        \* calls of apply_to_job made by the loop
  sleeps              \* calls of time.sleep(3) made by the loop

hapVars == <<wizard, hapState, attempt, iters, clicks, sawSuccess, hapResult>>
scoreVars == <<query, verdict>>
parseVars == <<text, profile, posting, corpus>>
cardVars == <<cards, listings>>
scrollVars == <<scrollState, heights, last_height, scrolls>>
winVars == <<start_button, stop_button, workers, runs, after_queue, handlers,
             log_queue, log_text, emitted, appended>>
pureVars == <<parseVars, cardVars, scrollVars, winVars>>
configVars == <<variant, frontend, resume_path, min_match_score, max_applications>>
guiVars == <<is_running>>
listVars == <<all_jobs, job_links, description_gets, easy_apply_jobs, non_easy_apply_jobs, loop_jobs>>
outcomeVars == <<applied_jobs, failed_jobs, unsuitable_jobs, suitable_jobs>>
loopVars == <<idx, cur, applications_sent, lastReturn, escaped, apply_calls, sleeps>>
runVars == <<configVars, guiVars, events, pc, driver, resume_data, listVars,
             outcomeVars, loopVars>>

vars == <<hapVars, scoreVars, pureVars, runVars>>

(* ------------------------ JobMatcher (scoring) ------------------------- *)
Min(a, b) == IF a <= b THEN a ELSE b
Max(a, b) == IF a >= b THEN a ELSE b

\* cosine similarity and skill boost, in tenths
Tenths == 0..10
\* scores and thresholds, in hundredths
Hundredths == 0..100

\* what the TF-IDF step does: "none" when it computes a similarity, otherwise
\* the text of the exception it raises
NoError == "none"
EmptyVocabulary == "empty vocabulary; perhaps the documents only contain stop words"
ScoreErrors == {EmptyVocabulary}

\* a completed call: a returned value, or an exception leaving the function
Return(v) == [raised |-> NoError, value |-> v]
Raise(e)  == [raised |-> e, value |-> 0]

\* variant of CalculateJobMatchScore with the two weights exchanged
CalculateJobMatchScoreSwapped(in) ==
  IF in.err # NoError
    THEN Return(0)
    ELSE Return(Min(3 * in.sim + 7 * in.boost, 100))

\* calculate_job_match_score: weighted sum capped at 1.0; its own handler
\* logs any exception and returns 0.0
CalculateJobMatchScore(in) ==
  IF in.err # NoError
    THEN Return(0)
    ELSE Return(Min(7 * in.sim + 3 * in.boost, 100))

\* "{x:.2f}" of a score: integer part and two decimals
Fmt2(s) ==
  ToString(s \div 100) \o "." \o ToString((s % 100) \div 10) \o ToString(s % 10)

GoodMatch(s) == <<"Good match (Score: ", Fmt2(s), ") - Skills and experience align well">>
PoorMatch(s) == <<"Poor match (Score: ", Fmt2(s), ") - Limited skill overlap">>
ErrorInAnalysis(e) == <<"Error in analysis: ", e>>

\* variant of MeetsThreshold with a strict comparison
StrictlyAbove(match_score, min_score) == match_score > min_score

\* the comparison of is_suitable_job
MeetsThreshold(match_score, min_score) == match_score >= min_score

\* is_suitable_job: (is_suitable, match_score, explanation)
IsSuitableJob(in, min_score) ==
  LET r == CalculateJobMatchScore(in) IN
    IF r.raised # NoError
      THEN [is_suitable |-> FALSE, match_score |-> 0,
            explanation |-> ErrorInAnalysis(r.raised)]
      ELSE LET match_score == r.value
               is_suitable == MeetsThreshold(match_score, min_score)
           IN [is_suitable |-> is_suitable, match_score |-> match_score,
               explanation |-> IF is_suitable THEN GoodMatch(match_score)
                                              ELSE PoorMatch(match_score)]

\* the explanation contains the text e
Contains(explanation, e) ==
  \E i \in 1..Len(explanation) : explanation[i] = e

ScoreInputs == [err : {NoError} \cup ScoreErrors, sim : Tenths, boost : Tenths]

(* ------------------------------ strings -------------------------------- *)
\* the character at position i of s
Char(s, i) == SubSeq(s, i, i)

\* `k in t` of Python: k occurs in t as a substring
In(k, t) ==
  \E i \in 1..(Len(t) - Len(k) + 1) : SubSeq(t, i, i + Len(k) - 1) = k

UpperCase == "ABCDEFGHIJKLMNOPQRSTUVWXYZ"
LowerCase == "abcdefghijklmnopqrstuvwxyz"

UpperChars == {Char(UpperCase, i) : i \in 1..Len(UpperCase)}
LowerChars == {Char(LowerCase, i) : i \in 1..Len(LowerCase)}

\* the lower-case letter of every upper-case letter
LowerOf ==
  [c \in UpperChars |->
     Char(LowerCase, CHOOSE i \in 1..Len(UpperCase) : Char(UpperCase, i) = c)]

LowerChar(c) == IF c \in UpperChars THEN LowerOf[c] ELSE c

\* str.lower(): every character lower-cased, computed half by half
RECURSIVE Lower(_)
Lower(s) ==
  IF Len(s) = 0 THEN ""
  ELSE IF Len(s) = 1 THEN LowerChar(s)
  ELSE LET half == Len(s) \div 2
       IN Lower(SubSeq(s, 1, half)) \o Lower(SubSeq(s, half + 1, Len(s)))

IsSpace(c) == c \in {" ", "\n", "\t"}
IsDigit(c) == c \in {"0", "1", "2", "3", "4", "5", "6", "7", "8", "9"}

\* str.strip() leaves nothing: the text is empty or all whitespace
Blank(s) == \A i \in 1..Len(s) : IsSpace(Char(s, i))

(* --------------------------- ResumeParser ------------------------------ *)
\* self.tech_skills: the catalog, category by category
Categories == <<"programming", "web", "database", "cloud", "data", "tools">>

tech_skills ==
  [c \in {Categories[i] : i \in 1..Len(Categories)} |->
     CASE c = "programming" ->
            <<"python", "java", "javascript", "c++", "c#", "php", "ruby", "go",
              "rust", "swift", "kotlin">>
       [] c = "web" ->
            <<"html", "css", "react", "angular", "vue", "node.js", "express",
              "django", "flask", "spring">>
       [] c = "database" ->
            <<"sql", "mysql", "postgresql", "mongodb", "redis", "elasticsearch",
              "oracle", "sqlite">>
       [] c = "cloud" ->
            <<"aws", "azure", "gcp", "docker", "kubernetes", "terraform",
              "jenkins", "ci/cd">>
       [] c = "data" ->
            <<"pandas", "numpy", "matplotlib", "scikit-learn", "tensorflow",
              "pytorch", "spark", "hadoop">>
       [] c = "tools" ->
            <<"git", "jira", "confluence", "slack", "trello", "figma",
              "photoshop", "excel">>]

\* variant of ExtractSkills that stops looking in a category at the first
\* entry found
ExtractSkillsFirstOnly(t) ==
  [c \in DOMAIN tech_skills |->
     LET Found(skill) == In(skill, t)
         all == SelectSeq(tech_skills[c], Found)
     IN IF all = <<>> THEN <<>> ELSE <<all[1]>>]

\* extract_skills: per category the catalog entries found in the text, in
\* the order of the catalog
ExtractSkills(t) ==
  [c \in DOMAIN tech_skills |->
     LET Found(skill) == In(skill, t) IN SelectSeq(tech_skills[c], Found)]

\* self.experience_keywords, in the order of the dict
LevelsSeniorFirst == <<"senior", "mid", "junior">>
Levels == <<"junior", "mid", "senior">>

experience_keywords ==
  [l \in {"junior", "mid", "senior"} |->
     CASE l = "junior" ->
            <<"junior", "entry", "associate", "intern", "0-2 years", "graduate">>
       [] l = "mid" ->
            <<"mid", "intermediate", "2-5 years", "3-7 years", "experienced">>
       [] l = "senior" ->
            <<"senior", "lead", "principal", "5+ years", "7+ years", "expert",
              "architect">>]

\* extract_experience_level: the two nested loops return at the first keyword
\* found; li, ki are the positions of the loops
RECURSIVE LevelFrom(_, _, _)
LevelFrom(t, li, ki) ==
  IF li > Len(Levels) THEN "unknown"
  ELSE LET keywords == experience_keywords[Levels[li]] IN
    IF ki > Len(keywords) THEN LevelFrom(t, li + 1, 1)
    ELSE IF In(keywords[ki], t) THEN Levels[li]
    ELSE LevelFrom(t, li, ki + 1)

ExtractExperienceLevel(t) == LevelFrom(t, 1, 1)

(* ---- the three regular expressions of extract_years_experience -------- *)
\* A position is an index into the text; 0 stands for "no match".
\* \d+ and \s* are greedy; none of the patterns can match after giving back
\* a character, so one left-to-right pass decides a match.
RECURSIVE SkipDigits(_, _)
SkipDigits(t, i) ==
  IF i <= Len(t) /\ IsDigit(Char(t, i)) THEN SkipDigits(t, i + 1) ELSE i

RECURSIVE SkipSpaces(_, _)
SkipSpaces(t, i) ==
  IF i <= Len(t) /\ IsSpace(Char(t, i)) THEN SkipSpaces(t, i + 1) ELSE i

\* the literal w at position i: the position after it, or 0
Lit(t, i, w) ==
  IF i # 0 /\ i + Len(w) - 1 <= Len(t) /\ SubSeq(t, i, i + Len(w) - 1) = w
    THEN i + Len(w) ELSE 0

\* w? at position i
Opt(t, i, w) == IF Lit(t, i, w) # 0 THEN Lit(t, i, w) ELSE i

\* (\d+)\+?\s*years? at position i: the position after it, or 0
NumberYears(t, i) ==
  LET d == SkipDigits(t, i) IN
    IF d = i THEN 0
    ELSE LET y == Lit(t, SkipSpaces(t, Opt(t, d, "+")), "year")
         IN IF y = 0 THEN 0 ELSE Opt(t, y, "s")

\* \s*(?:of\s*)? at position i
SpacesOf(t, i) ==
  LET sp == SkipSpaces(t, i) IN
    IF Lit(t, sp, "of") # 0 THEN SkipSpaces(t, Lit(t, sp, "of")) ELSE sp

\* int() of a string of digits
RECURSIVE ToInt(_)
ToInt(digits) ==
  IF digits = "" THEN 0
  ELSE 10 * ToInt(SubSeq(digits, 1, Len(digits) - 1))
         + (CHOOSE v \in 0..9 : ToString(v) = Char(digits, Len(digits)))

NoMatch == [end |-> 0, group |-> ""]

\* re.match of pattern number p at position i: where the match ends and the
\* text of its group
\*   1: (\d+)\+?\s*years?\s*(?:of\s*)?experience
\*   2: (\d+)\+?\s*years?\s*in
\*   3: experience\s*(?:of\s*)?(\d+)\+?\s*years?
MatchAt(p, t, i) ==
  CASE p = 1 ->
         LET y == NumberYears(t, i)
             e == IF y = 0 THEN 0 ELSE Lit(t, SpacesOf(t, y), "experience")
         IN IF e = 0 THEN NoMatch
            ELSE [end |-> e, group |-> SubSeq(t, i, SkipDigits(t, i) - 1)]
    [] p = 2 ->
         LET y == NumberYears(t, i)
             e == IF y = 0 THEN 0 ELSE Lit(t, SkipSpaces(t, y), "in")
         IN IF e = 0 THEN NoMatch
            ELSE [end |-> e, group |-> SubSeq(t, i, SkipDigits(t, i) - 1)]
    [] p = 3 ->
         LET x == Lit(t, i, "experience")
             n == IF x = 0 THEN 0 ELSE SpacesOf(t, x)
             e == IF n = 0 THEN 0 ELSE NumberYears(t, n)
         IN IF e = 0 THEN NoMatch
            ELSE [end |-> e, group |-> SubSeq(t, n, SkipDigits(t, n) - 1)]

\* re.findall(pattern, text): the groups of the non-overlapping matches,
\* scanning from the left
RECURSIVE FindAll(_, _, _)
FindAll(p, t, i) ==
  LET starts == {j \in i..Len(t) : MatchAt(p, t, j).end # 0}
  IN IF starts = {} THEN <<>>
     ELSE LET first == CHOOSE j \in starts : \A k \in starts : j <= k
              m == MatchAt(p, t, first)
          IN <<m.group>> \o FindAll(p, t, m.end)

\* variant of MaxOf that takes the first match
FirstOf(years) == years[1]

\* max(years)
MaxOf(years) ==
  CHOOSE y \in {years[i] : i \in 1..Len(years)} :
    \A i \in 1..Len(years) : years[i] <= y

\* extract_years_experience
ExtractYearsExperience(t) ==
  LET matches == FindAll(1, t, 1) \o FindAll(2, t, 1) \o FindAll(3, t, 1)
      years == [i \in 1..Len(matches) |-> ToInt(matches[i])]
  IN IF years # <<>> THEN MaxOf(years) ELSE 0

\* analyze_resume_text: the fields the matcher and the run read (education
\* and contact_info are left out)
AnalyzeResumeText(t) ==
  LET text_lower == Lower(t)
  IN [skills |-> ExtractSkills(text_lower),
      experience_level |-> ExtractExperienceLevel(text_lower),
      years_experience |-> ExtractYearsExperience(text_lower),
      raw_text |-> t]

\* variant of ParseResumeOf without the test for an empty text
ParseResumeUnchecked(opened, t) ==
  IF ~opened THEN Raise("FileNotFoundError or unsupported format")
  ELSE Return(AnalyzeResumeText(t))

\* ResumeParser.parse_resume on a file; opened: the path exists and has one
\* of the extensions .pdf, .docx, .txt; t: what extract_text_from_* returns
\* ("" when the file cannot be read)
ParseResumeOf(opened, t) ==
  IF ~opened THEN Raise("FileNotFoundError or unsupported format")
  ELSE IF Blank(t) THEN Raise("No text could be extracted from the resume")
  ELSE Return(AnalyzeResumeText(t))

(* ------------------ JobMatcher on a parsed resume ---------------------- *)
\* " ".join(list)
RECURSIVE JoinSpace(_)
JoinSpace(list) ==
  IF list = <<>> THEN ""
  ELSE IF Len(list) = 1 THEN list[1]
  ELSE list[1] \o " " \o JoinSpace(Tail(list))

\* format_resume_skills: "category: skill skill " for every category
RECURSIVE FormatFrom(_, _)
FormatFrom(skills, ci) ==
  IF ci > Len(Categories) THEN ""
  ELSE Categories[ci] \o ": " \o JoinSpace(skills[Categories[ci]]) \o " "
         \o FormatFrom(skills, ci + 1)

FormatResumeSkills(resume) == FormatFrom(resume.skills, 1)

IsWordChar(c) == IsDigit(c) \/ c = "_" \/ c \in LowerChars \/ c \in UpperChars

\* English stop words of the vectorizer that occur in the texts studied here
StopWords == {"the", "of", "in", "go", "we", "are", "for", "with", "and", "a"}

\* the end of the run of word characters that starts at i
RECURSIVE WordEnd(_, _)
WordEnd(s, i) ==
  IF i <= Len(s) /\ IsWordChar(Char(s, i)) THEN WordEnd(s, i + 1) ELSE i

\* the analyzer of TfidfVectorizer(stop_words='english') keeps a term of s
\* at or after position i: a word of two or more characters, lower-cased,
\* that is no stop word
RECURSIVE HasTerm(_, _)
HasTerm(s, i) ==
  IF i > Len(s) THEN FALSE
  ELSE IF ~IsWordChar(Char(s, i)) THEN HasTerm(s, i + 1)
  ELSE LET e == WordEnd(s, i)
           word == Lower(SubSeq(s, i, e - 1))
       IN IF Len(word) >= 2 /\ word \notin StopWords THEN TRUE
          ELSE HasTerm(s, e)

\* corpus of calculate_job_match_score: the resume text with the formatted
\* skills, and the lower-cased job description
Corpus(resume, job_description, job_title) ==
  <<resume.raw_text \o " " \o FormatResumeSkills(resume), Lower(job_description)>>

\* fit_transform raises ValueError when neither document keeps a term
FitTransform(resume_text, job_description) ==
  IF HasTerm(resume_text, 1) \/ HasTerm(job_description, 1)
    THEN NoError ELSE EmptyVocabulary

\* the skills of all categories, in one list
RECURSIVE AllSkillsFrom(_, _)
AllSkillsFrom(skills, ci) ==
  IF ci > Len(Categories) THEN <<>>
  ELSE skills[Categories[ci]] \o AllSkillsFrom(skills, ci + 1)

AllSkills(resume) == AllSkillsFrom(resume.skills, 1)

\* variant of JobText that leaves the title out
JobTextWithoutTitle(job_title, job_description) == Lower(job_description)

\* job_text of calculate_skill_match_boost
JobText(job_title, job_description) == Lower(job_title \o " " \o job_description)

\* the skills of the resume that occur in job_text
MatchedSkills(resume, job_text) ==
  LET Occurs(skill) == In(Lower(skill), job_text)
  IN SelectSeq(AllSkills(resume), Occurs)

\* variant of CalculateSkillMatchBoost that counts only the matched skills
\* in the total
CalculateSkillMatchBoostOfMatched(resume, job_description, job_title) ==
  LET matched_skills ==
        Len(MatchedSkills(resume, JobText(job_title, job_description)))
  IN IF matched_skills = 0 THEN 0 ELSE 10

\* calculate_skill_match_boost: matched / total, here in tenths rounded down
CalculateSkillMatchBoost(resume, job_description, job_title) ==
  LET total_skills == Len(AllSkills(resume))
      matched_skills ==
        Len(MatchedSkills(resume, JobText(job_title, job_description)))
  IN IF total_skills = 0 THEN 0 ELSE (10 * matched_skills) \div total_skills

\* what calculate_job_match_score works with for a resume and a job: whether
\* the TF-IDF step raises, the similarity it measures (sim, not computed
\* here), and the skill boost
ScoreInputOf(resume, job_description, job_title, sim) ==
  [err |-> FitTransform(Corpus(resume, job_description, job_title)[1],
                        Corpus(resume, job_description, job_title)[2]),
   sim |-> sim,
   boost |-> CalculateSkillMatchBoost(resume, job_description, job_title)]

(* --------------------- the page seen by the driver --------------------- *)
\* outcome of looking a control up and using it:
\*   absent   - find_element raises NoSuchElementException
\*   disabled - found, is_enabled() is False
\*   enabled  - found, is_enabled() is True, click() succeeds
\*   error    - the driver raises any other exception on this control
Ctl == {"absent", "disabled", "enabled", "error"}

\* success:     indicator located by the lookup that follows a Submit click
\* successLate: indicator located by the lookup in the NoSuchElement handler
Pages == [submit : Ctl, next : Ctl, review : Ctl,
          success : BOOLEAN, successLate : BOOLEAN]

Page(s, n, r, ok, late) ==
  [submit |-> s, next |-> n, review |-> r, success |-> ok, successLate |-> late]

(* ------------- one iteration of the while loop, as a function ---------- *)
\* clicks: the controls clicked in this iteration, in order
\* exit  : "true" (return True), "false" (return False or break), "cont"
\* saw   : the success indicator was located
\* inc   : `attempt += 1` was executed
Out(cl, ex, saw, inc) == [clicks |-> cl, exit |-> ex, saw |-> saw, inc |-> inc]

\* variant of NoSuchElementHandler that goes on to the next iteration instead
\* of leaving the loop
NoSuchElementHandlerContinue(p, cl) ==
  IF p.successLate THEN Out(cl, "true", TRUE, FALSE)
                   ELSE Out(cl, "cont", FALSE, TRUE)

\* except NoSuchElementException: look for the success indicator, else break
NoSuchElementHandler(p, cl) ==
  IF p.successLate THEN Out(cl, "true", TRUE, FALSE)
                   ELSE Out(cl, "false", FALSE, FALSE)

\* outer except Exception: log and return False
OuterHandler(cl) == Out(cl, "false", FALSE, FALSE)

\* variant of ReviewPart without the `attempt += 1` at the bottom of the body
ReviewPartNoIncrement(p, cl) ==
  CASE p.review = "absent"   -> NoSuchElementHandler(p, cl)
    [] p.review = "error"    -> OuterHandler(cl)
    [] p.review = "enabled"  -> Out(cl \o <<"review">>, "cont", FALSE, TRUE)
    [] p.review = "disabled" -> Out(cl, "cont", FALSE, FALSE)

\* the Review button, and `attempt += 1` at the bottom of the loop body
ReviewPart(p, cl) ==
  CASE p.review = "absent"   -> NoSuchElementHandler(p, cl)
    [] p.review = "error"    -> OuterHandler(cl)
    [] p.review = "enabled"  -> Out(cl \o <<"review">>, "cont", FALSE, TRUE)
    [] p.review = "disabled" -> Out(cl, "cont", FALSE, TRUE)

\* the Next button
NextPart(p, cl) ==
  CASE p.next = "absent"   -> NoSuchElementHandler(p, cl)
    [] p.next = "error"    -> OuterHandler(cl)
    [] p.next = "enabled"  -> Out(cl \o <<"next">>, "cont", FALSE, TRUE)
    [] p.next = "disabled" -> ReviewPart(p, cl)

\* the Submit button and the success lookup after its click
SubmitPart(p) ==
  CASE p.submit = "absent"   -> NoSuchElementHandler(p, <<>>)
    [] p.submit = "error"    -> OuterHandler(<<>>)
    [] p.submit = "enabled"  -> IF p.success
                                  THEN Out(<<"submit">>, "true", TRUE, FALSE)
                                  ELSE NextPart(p, <<"submit">>)
    [] p.submit = "disabled" -> NextPart(p, <<>>)

LoopBody(p) == SubmitPart(p)

\* the page rendered at loop iteration j (1-based)
PageAt(j) == IF j <= Len(wizard) THEN {wizard[j]} ELSE Pages

(* ------------------- handle_application_process ------------------------ *)
\* one pass through `while attempt < max_attempts`; when the pass leaves the
\* loop (return, break, or the loop test failing afterwards) the call returns
HandleIteration ==
  /\ hapState = "running"
  /\ attempt < max_attempts
  /\ \E p \in PageAt(iters + 1) :
       LET o == LoopBody(p)
           a == IF o.inc THEN attempt + 1 ELSE attempt
       IN /\ iters' = iters + 1
          /\ clicks' = clicks \o o.clicks
          /\ sawSuccess' = o.saw
          /\ attempt' = a
          /\ IF o.exit = "cont" /\ a < max_attempts
               THEN /\ hapState' = "running"
                    /\ hapResult' = hapResult
               ELSE /\ hapState' = "returned"
                    /\ hapResult' = (o.exit = "true")
  /\ UNCHANGED <<wizard, scoreVars, pureVars, runVars>>

HapEntry ==
  /\ hapState = "running" /\ attempt = 0 /\ iters = 0 /\ clicks = <<>>
  /\ sawSuccess = FALSE /\ hapResult = FALSE

(* --------------------------- scripted wizards -------------------------- *)
\* the loop reads at most max_attempts pages; a script is one page longer so
\* that it can say what would be rendered after the step cap
ScriptLen == max_attempts + 1

NextOnly           == Page("absent", "enabled", "absent", FALSE, FALSE)
SubmitOk           == Page("enabled", "absent", "absent", TRUE, FALSE)
Nothing            == Page("absent", "absent", "absent", FALSE, FALSE)
SubmitFailNext     == Page("enabled", "enabled", "absent", FALSE, FALSE)
DisabledSubmitNext == Page("disabled", "enabled", "absent", FALSE, FALSE)
AllDisabled        == Page("disabled", "disabled", "disabled", FALSE, FALSE)

ScriptPages == {NextOnly, SubmitOk, Nothing, SubmitFailNext,
                DisabledSubmitNext, AllDisabled}

\* <<>> is the unscripted wizard: every page is chosen by the environment
Wizards == [1..ScriptLen -> ScriptPages] \cup {<<>>}

(* ------------------------------ listings ------------------------------- *)
\* a job dict of get_all_job_listings: scoring fields start at 0.0 / False;
\* url stands for the texts read off the card (url, title, company, location),
\* which differ from card to card
NewJob(card, easy) ==
  [url |-> card, has_easy_apply |-> easy, description |-> "",
   match_score |-> 0, is_suitable |-> FALSE, match_explanation |-> <<>>]

\* get_job_description: the text of the description element of the page at
\* url, "" when the page shows none or the driver raises; the page of the
\* first card is one of these
GetJobDescription(url) == IF url = 1 THEN "" ELSE "job description"

\* a job card of the results page, as the lookups on it turn out:
\*   link     - "ok", or "error" when locating the title link or reading
\*              its href or text raises
\*   company, location - the text found, or "" when the lookup raises
\*   easy     - the card carries the Easy Apply label
CardKinds ==
  [link : {"ok", "error"}, company : {"Acme", ""}, location : {"Pune", ""},
   easy : BOOLEAN]

\* job_info of the card with number i
JobInfo(i, card) ==
  [url |-> i,
   company |-> IF card.company # "" THEN card.company ELSE "Unknown Company",
   location |-> IF card.location # "" THEN card.location ELSE "Unknown Location",
   has_easy_apply |-> card.easy, description |-> "",
   match_score |-> 0, is_suitable |-> FALSE, match_explanation |-> <<>>]

\* variant of OnCardError that gives up the cards read so far
OnCardErrorDropAll(all) == <<>>

\* the handler of the per-card try: log a warning, `continue`
OnCardError(all) == all

\* the for loop of get_all_job_listings from card i on; all is the list
\* built so far
RECURSIVE ListingsFrom(_, _, _)
ListingsFrom(job_cards, i, all) ==
  IF i > Len(job_cards) THEN all
  ELSE ListingsFrom(job_cards, i + 1,
         IF job_cards[i].link = "ok"
           THEN Append(all, JobInfo(i, job_cards[i]))
           ELSE OnCardError(all))

\* get_all_job_listings: scrolling or finding the cards may raise, which
\* returns []
GetAllJobListingsOf(page) ==
  IF page.scroll = "ok" THEN ListingsFrom(page.job_cards, 1, <<>>) ELSE <<>>

\* seq[:m] of Python
SliceTo(seq, m) ==
  SubSeq(seq, 1, IF m >= 0 THEN Min(m, Len(seq)) ELSE Max(Len(seq) + m, 0))

\* variant of SortedByScore that puts a listing ahead of the earlier listings
\* of equal score
RECURSIVE SortedByScoreTiesReversed(_, _)
SortedByScoreTiesReversed(ids, jobs) ==
  IF ids = <<>> THEN <<>>
  ELSE LET front == SortedByScoreTiesReversed(SubSeq(ids, 1, Len(ids) - 1), jobs)
           x == ids[Len(ids)]
           k == Cardinality({i \in 1..Len(front) :
                               jobs[front[i]].match_score > jobs[x].match_score})
       IN SubSeq(front, 1, k) \o <<x>> \o SubSeq(front, k + 1, Len(front))

\* sorted(ids, key=match_score, reverse=True): stable, descending
RECURSIVE SortedByScore(_, _)
SortedByScore(ids, jobs) ==
  IF ids = <<>> THEN <<>>
  ELSE LET front == SortedByScore(SubSeq(ids, 1, Len(ids) - 1), jobs)
           x == ids[Len(ids)]
           k == Cardinality({i \in 1..Len(front) :
                               jobs[front[i]].match_score >= jobs[x].match_score})
       IN SubSeq(front, 1, k) \o <<x>> \o SubSeq(front, k + 1, Len(front))

Ids(n) == [i \in 1..n |-> i]
Range(seq) == {seq[i] : i \in 1..Len(seq)}

(* ------------------------------ the run -------------------------------- *)
HapIdle ==
  /\ wizard = <<>> /\ hapState = "idle" /\ attempt = 0 /\ iters = 0
  /\ clicks = <<>> /\ sawSuccess = FALSE /\ hapResult = FALSE

\* no call of is_suitable_job under study: explanation <<>> marks "not called"
NoQuery == [in |-> [err |-> NoError, sim |-> 0, boost |-> 0], min_score |-> 0]
NoVerdict == [is_suitable |-> FALSE, match_score |-> 0, explanation |-> <<>>]
Called == verdict.explanation # <<>>

ScoreIdle == query = NoQuery /\ verdict = NoVerdict

\* no resume text analysed: the level "" marks "not analysed"
NoProfile ==
  [skills |-> [c \in DOMAIN tech_skills |-> <<>>], experience_level |-> "",
   years_experience |-> 0, raw_text |-> ""]
Analysed == profile.experience_level # ""
NoPosting == [title |-> "", description |-> ""]
NoCorpus == <<>>

\* no page of cards read
NoCards == [scroll |-> "ok", job_cards |-> <<>>]
NoListings == [returned |-> FALSE, jobs |-> <<>>]

\* scroll_to_load_jobs is not running
ScrollIdle ==
  scrollState = "idle" /\ heights = <<>> /\ last_height = 0 /\ scrolls = 0

\* no window is open
WindowIdle ==
  /\ start_button = "none" /\ stop_button = "none"
  /\ workers = <<>> /\ runs = 0 /\ after_queue = 0 /\ handlers = 0
  /\ log_queue = <<>> /\ log_text = <<>> /\ emitted = <<>> /\ appended = <<>>

\* nothing analysed, no job matched, no page of cards read
PureRest ==
  /\ profile = NoProfile /\ posting = NoPosting /\ corpus = NoCorpus
  /\ cards = NoCards /\ listings = NoListings
  /\ ScrollIdle /\ WindowIdle

PureIdle == text = "" /\ PureRest

RunIdle ==
  /\ variant = "none" /\ pc = "idle" /\ driver = "none"
  /\ frontend = "none" /\ is_running = FALSE /\ events = <<>>
  /\ resume_path = FALSE /\ resume_data = FALSE
  /\ min_match_score = 0 /\ max_applications = 0
  /\ all_jobs = <<>> /\ job_links = <<>> /\ description_gets = <<>>
  /\ easy_apply_jobs = <<>> /\ non_easy_apply_jobs = <<>> /\ loop_jobs = <<>>
  /\ idx = 0 /\ cur = 0 /\ applications_sent = 0
  /\ applied_jobs = <<>> /\ failed_jobs = <<>>
  /\ unsuitable_jobs = <<>> /\ suitable_jobs = <<>>
  /\ lastReturn = "none" /\ escaped = FALSE
  /\ apply_calls = 0 /\ sleeps = 0

\* thresholds a run is started with (main clamps the input to [0.0, 1.0];
\* 0.3 is the default)
DefaultMinScore == 30
RunMinScores == {0, DefaultMinScore}
Caps == (0 - MaxNegCap)..MaxCap

\* the scoring situations a run meets for one listing
RunScoreInputs ==
  {in \in ScoreInputs : in.sim \in {0, 10} /\ in.boost = in.sim}

\* the wizards a run meets: any first page, then a page that submits or a
\* page without controls
RunWizards ==
  {[j \in 1..ScriptLen |-> IF j = 1 THEN p ELSE q] :
     p \in ScriptPages, q \in {SubmitOk, Nothing}}

\* __init__ of both tools, and the arguments of the run
\* texts that extraction from the resume file may give
ResumeTexts == {"", " \n", "Senior Python "}

InitRun ==
  /\ variant \in {"enhanced", "basic"}
  /\ pc = "start" /\ driver = "none" /\ events = <<>>
  /\ resume_path \in (IF variant = "enhanced" THEN BOOLEAN ELSE {FALSE})
  /\ text \in (IF resume_path THEN ResumeTexts ELSE {""})
  /\ resume_data = FALSE
  /\ min_match_score \in (IF resume_path THEN RunMinScores ELSE {DefaultMinScore})
  /\ max_applications \in Caps
  /\ all_jobs = <<>> /\ job_links = <<>> /\ description_gets = <<>>
  /\ easy_apply_jobs = <<>> /\ non_easy_apply_jobs = <<>> /\ loop_jobs = <<>>
  /\ idx = 0 /\ cur = 0 /\ applications_sent = 0
  /\ applied_jobs = <<>> /\ failed_jobs = <<>>
  /\ unsuitable_jobs = <<>> /\ suitable_jobs = <<>>
  /\ lastReturn = "none" /\ escaped = FALSE
  /\ apply_calls = 0 /\ sleeps = 0

\* EnhancedLinkedInAutomation.parse_resume, called when a path is configured;
\* an exception of the parser is caught and leaves resume_data = None
ParseResume ==
  /\ pc = "start"
  /\ IF variant = "enhanced" /\ resume_path
       THEN \E opened \in BOOLEAN :
              resume_data' = (ParseResumeOf(opened, text).raised = NoError)
       ELSE resume_data' = resume_data
  /\ pc' = "setup"
  /\ UNCHANGED <<hapVars, scoreVars, pureVars, configVars, guiVars, events, driver, listVars,
                 outcomeVars, loopVars>>

\* setup_driver: webdriver.Chrome may raise (no driver), execute_script may
\* raise (driver exists); the exception is caught at the run boundary
SetupDriver ==
  /\ pc = "setup"
  /\ \E how \in {"ok", "noDriver", "scriptError"} :
       /\ driver' = IF how = "noDriver" THEN "none" ELSE "open"
       /\ pc' = IF how = "ok" THEN "login" ELSE "finally"
       /\ events' = Append(events, <<"setup_driver", how = "ok">>)
  /\ UNCHANGED <<hapVars, scoreVars, pureVars, configVars, guiVars, resume_data, listVars,
                 outcomeVars, loopVars>>

\* variant of Login where the run goes on to the search whatever login
\* returned
LoginResultIgnored ==
  /\ pc = "login"
  /\ \E ok \in BOOLEAN :
       /\ pc' = "search"
       /\ events' = Append(events, <<"login", ok>>)
  /\ UNCHANGED <<hapVars, scoreVars, pureVars, configVars, guiVars, driver, resume_data, listVars,
                 outcomeVars, loopVars>>

\* login_to_linkedin returns True or False; False ends the run
Login ==
  /\ pc = "login"
  /\ \E ok \in BOOLEAN :
       /\ pc' = IF ok THEN "search" ELSE "finally"
       /\ events' = Append(events, <<"login", ok>>)
  /\ UNCHANGED <<hapVars, scoreVars, pureVars, configVars, guiVars, driver, resume_data, listVars,
                 outcomeVars, loopVars>>

\* search_jobs returns True or False; False ends the run
Search ==
  /\ pc = "search"
  /\ \E ok \in BOOLEAN :
       /\ pc' = IF ok THEN "discover" ELSE "finally"
       /\ events' = Append(events, <<"search", ok>>)
  /\ UNCHANGED <<hapVars, scoreVars, pureVars, configVars, guiVars, driver, resume_data, listVars,
                 outcomeVars, loopVars>>

\* get_all_job_listings: one job dict per card; no listing ends the run
GetAllJobListings ==
  /\ pc = "discover" /\ variant = "enhanced"
  /\ \E n \in 0..MaxJobs : \E easy \in [1..n -> BOOLEAN] :
       /\ all_jobs' = [i \in 1..n |-> NewJob(i, easy[i])]
       /\ pc' = IF n = 0 THEN "finally" ELSE "categorize"
       /\ events' = Append(events, <<"discover", n > 0>>)
  /\ UNCHANGED <<hapVars, scoreVars, pureVars, configVars, guiVars, driver, resume_data, job_links,
                 description_gets, easy_apply_jobs, non_easy_apply_jobs, loop_jobs,
                 outcomeVars, loopVars>>

\* variant of Fetches that visits the page of every job whether or not a
\* profile is loaded
FetchesAlways(jobs, loaded) == [i \in 1..Len(jobs) |-> jobs[i].url]

\* the urls analyze_and_categorize_jobs passes to get_job_description: every
\* job's when a profile is loaded, none otherwise
Fetches(jobs, loaded) ==
  IF loaded THEN [i \in 1..Len(jobs) |-> jobs[i].url] ELSE <<>>

\* the job dicts after the scoring pass of analyze_and_categorize_jobs
Scored(jobs, ins, min_score) ==
  [i \in 1..Len(jobs) |->
     LET v == IsSuitableJob(ins[i], min_score) IN
       [jobs[i] EXCEPT !.description = GetJobDescription(jobs[i].url),
                       !.match_score = v.match_score,
                       !.is_suitable = v.is_suitable,
                       !.match_explanation = v.explanation]]

\* variant of Categorized that takes every listing for an Easy Apply listing
CategorizedAllEasy(jobs, sorted) ==
  LET easy == Ids(Len(jobs))
  IN IF sorted
       THEN [easy |-> SortedByScore(easy, jobs), rest |-> <<>>]
       ELSE [easy |-> easy, rest |-> <<>>]

\* variant of Categorized whose second list takes every listing (the `else`
\* of the partition is missing)
CategorizedRestAll(jobs, sorted) ==
  LET IsEasy(i) == jobs[i].has_easy_apply
      easy == SelectSeq(Ids(Len(jobs)), IsEasy)
      rest == Ids(Len(jobs))
  IN IF sorted
       THEN [easy |-> SortedByScore(easy, jobs), rest |-> SortedByScore(rest, jobs)]
       ELSE [easy |-> easy, rest |-> rest]

\* the two lists analyze_and_categorize_jobs returns
Categorized(jobs, sorted) ==
  LET IsEasy(i) == jobs[i].has_easy_apply
      NotEasy(i) == ~jobs[i].has_easy_apply
      easy == SelectSeq(Ids(Len(jobs)), IsEasy)
      rest == SelectSeq(Ids(Len(jobs)), NotEasy)
  IN IF sorted
       THEN [easy |-> SortedByScore(easy, jobs), rest |-> SortedByScore(rest, jobs)]
       ELSE [easy |-> easy, rest |-> rest]

\* analyze_and_categorize_jobs and lines 537-543 of run_enhanced_automation
AnalyzeAndCategorize ==
  /\ pc = "categorize"
  /\ \E ins \in [1..Len(all_jobs) -> RunScoreInputs] :
       LET jobs == IF resume_data THEN Scored(all_jobs, ins, min_match_score)
                                  ELSE all_jobs
           lists == Categorized(jobs, resume_data)
       IN /\ all_jobs' = jobs
          /\ easy_apply_jobs' = lists.easy
          /\ non_easy_apply_jobs' = lists.rest
          /\ loop_jobs' = lists.easy
          /\ pc' = IF lists.easy # <<>> THEN "loop" ELSE "report"
  /\ description_gets' = description_gets \o Fetches(all_jobs, resume_data)
  /\ events' = Append(events, <<"categorize", TRUE>>)
  /\ UNCHANGED <<hapVars, scoreVars, pureVars, configVars, guiVars, driver, resume_data, job_links,
                 outcomeVars, loopVars>>

\* basic tool: get_job_listings, then the slice the for loop iterates
GetJobListings ==
  /\ pc = "discover" /\ variant = "basic"
  /\ \E n \in 0..MaxJobs :
       /\ job_links' = Ids(n)
       /\ loop_jobs' = SliceTo(Ids(n), max_applications)
       /\ pc' = IF n = 0 THEN "finally" ELSE "loop"
       /\ events' = Append(events, <<"discover", n > 0>>)
  /\ UNCHANGED <<hapVars, scoreVars, pureVars, configVars, guiVars, driver, resume_data, all_jobs,
                 description_gets, easy_apply_jobs, non_easy_apply_jobs, outcomeVars,
                 loopVars>>

(* ------------------------ the per-job loop ----------------------------- *)
\* the listing the for loop hands out next
NextJob == loop_jobs[idx + 1]

\* `if applications_sent >= max_applications: break` (enhanced tool only; the
\* basic tool caps by slicing the list)
CapHit == variant = "enhanced" /\ applications_sent >= max_applications

\* variant of Unsuitable that does not ask for a loaded profile
UnsuitableWithoutProfile(job) ==
  variant = "enhanced" /\ ~all_jobs[job].is_suitable

\* `if self.resume_data and not job['is_suitable']`
Unsuitable(job) ==
  variant = "enhanced" /\ resume_data /\ ~all_jobs[job].is_suitable

\* the for loop runs out of listings
LoopExhausted ==
  /\ pc = "loop" /\ idx = Len(loop_jobs)
  /\ pc' = "report"
  /\ UNCHANGED <<hapVars, scoreVars, pureVars, configVars, guiVars, events, driver, resume_data, listVars,
                 outcomeVars, loopVars>>

\* the cap check at the top of the loop body breaks out of the loop
CapReached ==
  /\ pc = "loop" /\ idx < Len(loop_jobs) /\ CapHit
  /\ pc' = "report"
  /\ UNCHANGED <<hapVars, scoreVars, pureVars, configVars, guiVars, events, driver, resume_data, listVars,
                 outcomeVars, loopVars>>

\* an unsuitable listing is recorded and the loop continues with the next
SkipUnsuitable ==
  /\ pc = "loop" /\ idx < Len(loop_jobs) /\ ~CapHit
  /\ Unsuitable(NextJob)
  /\ unsuitable_jobs' = Append(unsuitable_jobs, NextJob)
  /\ idx' = idx + 1
  /\ UNCHANGED <<hapVars, scoreVars, pureVars, configVars, guiVars, events, pc, driver, resume_data, listVars,
                 applied_jobs, failed_jobs, suitable_jobs,
                 cur, applications_sent, lastReturn, escaped, apply_calls, sleeps>>

\* variant of ExceptHandler that lets the exception leave apply_to_job: it
\* reaches the handler of the run, which logs it and goes to `finally`
ExceptHandlerReraise(job) ==
  /\ failed_jobs' = failed_jobs
  /\ lastReturn' = "raised"
  /\ escaped' = TRUE
  /\ pc' = "finally"

\* apply_to_job, `except Exception`: log, record the listing as failed,
\* return False
ExceptHandler(job) ==
  /\ failed_jobs' = Append(failed_jobs, job)
  /\ lastReturn' = "false"
  /\ escaped' = escaped
  /\ pc' = "sleep"

\* apply_to_job, no Easy Apply button by either selector: log a warning and
\* return False
NoEasyApplyButton(job) ==
  /\ failed_jobs' = failed_jobs
  /\ lastReturn' = "false"
  /\ escaped' = escaped
  /\ pc' = "sleep"

\* apply_to_job up to the click on the Easy Apply button:
\*   navError   - driver.get raises
\*   noButton   - neither selector finds the button
\*   clickError - easy_apply_button.click() raises
\*   clicked    - the wizard opens and handle_application_process is entered
ApplyToJob ==
  /\ pc = "loop" /\ idx < Len(loop_jobs) /\ ~CapHit
  /\ ~Unsuitable(NextJob)
  /\ cur' = NextJob
  /\ apply_calls' = apply_calls + 1
  /\ \E how \in {"navError", "noButton", "clickError", "clicked"} :
       CASE how \in {"navError", "clickError"} ->
              /\ ExceptHandler(NextJob)
              /\ UNCHANGED hapVars
         [] how = "noButton" ->
              /\ NoEasyApplyButton(NextJob)
              /\ UNCHANGED hapVars
         [] how = "clicked" ->
              /\ wizard' \in RunWizards
              /\ hapState' = "running"
              /\ UNCHANGED <<attempt, iters, clicks, sawSuccess, hapResult>>
              /\ UNCHANGED <<failed_jobs, lastReturn, escaped>>
              /\ pc' = "hap"
  /\ UNCHANGED <<scoreVars, pureVars, configVars, guiVars, events, driver, resume_data, listVars,
                 applied_jobs, unsuitable_jobs, suitable_jobs,
                 idx, applications_sent, sleeps>>

\* variant of RecordOutcome that records a submission whatever the result
RecordOutcomeAlways(job, submitted) ==
  /\ applied_jobs' = Append(applied_jobs, job)
  /\ failed_jobs' = failed_jobs
  /\ lastReturn' = "true"

\* variant of RecordOutcome where a submission falls through to the failure
\* branch as well
RecordOutcomeBoth(job, submitted) ==
  IF submitted
    THEN /\ applied_jobs' = Append(applied_jobs, job)
         /\ failed_jobs' = Append(failed_jobs, job)
         /\ lastReturn' = "true"
    ELSE /\ failed_jobs' = Append(failed_jobs, job)
         /\ applied_jobs' = applied_jobs
         /\ lastReturn' = "false"

\* what apply_to_job does with the result of handle_application_process
RecordOutcome(job, submitted) ==
  IF submitted
    THEN /\ applied_jobs' = Append(applied_jobs, job)
         /\ failed_jobs' = failed_jobs
         /\ lastReturn' = "true"
    ELSE /\ failed_jobs' = Append(failed_jobs, job)
         /\ applied_jobs' = applied_jobs
         /\ lastReturn' = "false"

\* apply_to_job after handle_application_process returned
ApplyToJobReturn ==
  /\ pc = "hap" /\ hapState = "returned"
  /\ RecordOutcome(cur, hapResult)
  /\ pc' = "sleep"
  /\ wizard' = <<>> /\ hapState' = "idle" /\ attempt' = 0 /\ iters' = 0
  /\ clicks' = <<>> /\ sawSuccess' = FALSE /\ hapResult' = FALSE
  /\ UNCHANGED <<scoreVars, pureVars, configVars, guiVars, events, driver, resume_data, listVars,
                 unsuitable_jobs, suitable_jobs,
                 idx, cur, applications_sent, escaped, apply_calls, sleeps>>

\* `time.sleep(3)` at the bottom of the loop body: the window's override of
\* apply_to_easy_apply_jobs lives in a module that does not import time, so
\* the call raises NameError there
SleepRaises == frontend = "gui" /\ variant = "enhanced"

\* variant of SleepsAfter where the delay sits inside the `if` and runs only
\* after a submitted application
SleepsAfterSuccessOnly(ret) == IF ret = "true" THEN 1 ELSE 0

\* the delays at the bottom of the loop body, after apply_to_job returned
\* ret: one time.sleep(3), whatever was returned
SleepsAfter(ret) == 1

\* the loop body after apply_to_job returned: count a submission, then the
\* fixed delay, then on to the next listing; an exception of the delay is
\* caught at the run boundary
CountAndSleep ==
  /\ pc = "sleep"
  /\ IF lastReturn = "true"
       THEN /\ applications_sent' = applications_sent + 1
            /\ suitable_jobs' = IF variant = "enhanced"
                                  THEN Append(suitable_jobs, cur)
                                  ELSE suitable_jobs
       ELSE UNCHANGED <<applications_sent, suitable_jobs>>
  /\ idx' = idx + 1
  /\ cur' = 0
  /\ lastReturn' = "none"
  /\ sleeps' = IF SleepRaises THEN sleeps ELSE sleeps + SleepsAfter(lastReturn)
  /\ pc' = IF SleepRaises THEN "finally" ELSE "loop"
  /\ UNCHANGED <<hapVars, scoreVars, pureVars, configVars, guiVars, events, driver, resume_data,
                 listVars, applied_jobs, failed_jobs, unsuitable_jobs, escaped,
                 apply_calls>>

\* generate_comprehensive_report / generate_report: writing the report file
\* may raise, which is caught at the run boundary
GenerateReport ==
  /\ pc = "report"
  /\ \E ok \in BOOLEAN : events' = Append(events, <<"report", ok>>)
  /\ pc' = "finally"
  /\ UNCHANGED <<hapVars, scoreVars, pureVars, configVars, guiVars, driver, resume_data, listVars,
                 outcomeVars, loopVars>>

\* variant of Finally that leaves the driver as it is
FinallyWithoutQuit ==
  /\ pc = "finally"
  /\ driver' = driver
  /\ events' = events
  /\ pc' = "done"
  /\ UNCHANGED <<hapVars, scoreVars, pureVars, configVars, guiVars, resume_data, listVars,
                 outcomeVars, loopVars>>

\* finally: quit the driver if there is one
Finally ==
  /\ pc = "finally"
  /\ driver' = IF driver = "open" THEN "quit" ELSE driver
  /\ events' = IF driver = "open" THEN Append(events, <<"quit", TRUE>>) ELSE events
  /\ pc' = "done"
  /\ UNCHANGED <<hapVars, scoreVars, pureVars, configVars, guiVars, resume_data, listVars,
                 outcomeVars, loopVars>>

\* a run started from the command line: there is no window
Init ==
  /\ frontend = "cli" /\ is_running = FALSE
  /\ InitRun /\ HapIdle /\ ScoreIdle /\ PureRest

Next ==
  \/ ParseResume
  \/ SetupDriver
  \/ Login
  \/ Search
  \/ GetAllJobListings
  \/ AnalyzeAndCategorize
  \/ GetJobListings
  \/ LoopExhausted
  \/ CapReached
  \/ SkipUnsuitable
  \/ ApplyToJob
  \/ HandleIteration
  \/ ApplyToJobReturn
  \/ CountAndSleep
  \/ GenerateReport
  \/ Finally

Spec == Init /\ [][Next]_vars

(* ------------------ a run started from the window ---------------------- *)
\* start_automation: set the flag, start the worker thread that runs the tool
InitGui ==
  /\ frontend = "gui" /\ is_running = TRUE
  /\ InitRun /\ HapIdle /\ ScoreIdle /\ PureRest

\* stop_automation, the handler of the Stop button: it clears the flag of the
\* window; the button is enabled from Start on
StopAutomation ==
  /\ frontend = "gui" /\ pc # "idle"
  /\ is_running
  /\ is_running' = FALSE
  /\ UNCHANGED <<hapVars, scoreVars, pureVars, configVars, events, pc, driver, resume_data,
                 listVars, outcomeVars, loopVars>>

NextGui == Next \/ StopAutomation

SpecGui == InitGui /\ [][NextGui]_vars

(* ------------- handle_application_process on its own ------------------- *)
InitHap ==
  /\ wizard \in Wizards
  /\ HapEntry
  /\ ScoreIdle /\ PureIdle /\ RunIdle

NextHap == HandleIteration

SpecHap == InitHap /\ [][NextHap]_vars

(* ------------------- is_suitable_job on its own ------------------------ *)
\* thresholds a caller can pass
MinScores == {10 * k : k \in Tenths}

InitScore ==
  /\ query \in [in : ScoreInputs, min_score : MinScores]
  /\ verdict = NoVerdict
  /\ HapIdle /\ PureIdle /\ RunIdle

IsSuitableCall ==
  /\ ~Called
  /\ verdict' = IsSuitableJob(query.in, query.min_score)
  /\ UNCHANGED <<query, hapVars, pureVars, runVars>>

NextScore == IsSuitableCall

SpecScore == InitScore /\ [][NextScore]_vars

(* ------------- the resume parser and the matcher on its result --------- *)
\* most fragments a resume text is put together from
MaxFrags == 2

\* pieces of resume text
Fragments ==
  {"Senior ", "junior ", "amid ", "3 years experience ", "7+ years in ",
   "experience of 12 years ", "Golang-based ", "Python ", "sql ", "the "}

RECURSIVE Concat(_)
Concat(pieces) ==
  IF pieces = <<>> THEN "" ELSE Head(pieces) \o Concat(Tail(pieces))

Texts == {Concat(pieces) : pieces \in UNION {[1..n -> Fragments] : n \in 0..MaxFrags}}

\* jobs a profile is matched with; the second is the sample job of main()
Postings ==
  {[title |-> "Python Developer", description |-> "Build web services"],
   [title |-> "Python Developer",
    description |-> "We are looking for a Python developer with experience in Django, Flask, and SQL databases."],
   [title |-> "Go developer", description |-> ""],
   [title |-> "Accountant", description |-> "the"]}

\* similarities the TF-IDF step is taken to measure: none, half, full
MatchSims == {0, 5, 10}

InitResume ==
  /\ text \in Texts
  /\ profile = NoProfile /\ posting = NoPosting /\ corpus = NoCorpus
  /\ cards = NoCards /\ listings = NoListings /\ ScrollIdle /\ WindowIdle
  /\ HapIdle /\ ScoreIdle /\ RunIdle

\* analyze_resume_text on the extracted text
AnalyzeResumeTextCall ==
  /\ ~Analysed
  /\ profile' = AnalyzeResumeText(text)
  /\ UNCHANGED <<text, posting, corpus, cardVars, scrollVars, winVars, hapVars, scoreVars,
                 runVars>>

\* is_suitable_job(resume_data, description, title) with the default
\* threshold, on the profile of the resume
MatchJob ==
  /\ Analysed /\ ~Called
  /\ \E p \in Postings :
       LET at0 == ScoreInputOf(profile, p.description, p.title, 0) IN
         \E sim \in MatchSims :
           LET in == [at0 EXCEPT !.sim = sim] IN
             /\ posting' = p
             /\ corpus' = Corpus(profile, p.description, p.title)
             /\ query' = [in |-> in, min_score |-> DefaultMinScore]
             /\ verdict' = IsSuitableJob(in, DefaultMinScore)
  /\ UNCHANGED <<text, profile, cardVars, scrollVars, winVars, hapVars, runVars>>

NextResume == AnalyzeResumeTextCall \/ MatchJob

SpecResume == InitResume /\ [][NextResume]_vars

(* ---------------- get_all_job_listings on its own ---------------------- *)
InitCards ==
  /\ cards \in [scroll : {"ok", "error"},
                job_cards : UNION {[1..n -> CardKinds] : n \in 0..MaxJobs}]
  /\ listings = NoListings
  /\ text = "" /\ profile = NoProfile /\ posting = NoPosting /\ corpus = NoCorpus
  /\ ScrollIdle /\ WindowIdle
  /\ HapIdle /\ ScoreIdle /\ RunIdle

GetAllJobListingsCall ==
  /\ ~listings.returned
  /\ listings' = [returned |-> TRUE, jobs |-> GetAllJobListingsOf(cards)]
  /\ UNCHANGED <<cards, parseVars, scrollVars, winVars, hapVars, scoreVars, runVars>>

NextCards == GetAllJobListingsCall

SpecCards == InitCards /\ [][NextCards]_vars

(* ----------------- scroll_to_load_jobs on its own ----------------------- *)
\* document.body.scrollHeight as the page reports it
Heights == 1..MaxHeight

InitScroll ==
  /\ ScrollIdle /\ WindowIdle
  /\ text = "" /\ profile = NoProfile /\ posting = NoPosting /\ corpus = NoCorpus
  /\ cards = NoCards /\ listings = NoListings
  /\ HapIdle /\ ScoreIdle /\ RunIdle

\* the first measurement, before the loop
ScrollMeasure ==
  /\ scrollState = "idle"
  /\ \E h \in Heights :
       /\ heights' = <<h>>
       /\ last_height' = h
  /\ scrollState' = "measured"
  /\ UNCHANGED <<scrolls, parseVars, cardVars, winVars, hapVars, scoreVars, runVars>>

\* one pass of `while True`: scroll to the bottom, measure again, leave the
\* loop when the height equals the last one
ScrollIteration ==
  /\ scrollState = "measured" /\ scrolls < MaxScrolls
  /\ scrolls' = scrolls + 1
  /\ \E new_height \in Heights :
       /\ heights' = Append(heights, new_height)
       /\ IF new_height = last_height
            THEN scrollState' = "returned" /\ last_height' = last_height
            ELSE scrollState' = "measured" /\ last_height' = new_height
  /\ UNCHANGED <<parseVars, cardVars, winVars, hapVars, scoreVars, runVars>>

NextScroll == ScrollMeasure \/ ScrollIteration

SpecScroll == InitScroll /\ [][NextScroll]_vars

(* ------------- the window: Start, Stop, worker, log queue -------------- *)
\* what the window's handlers and the worker leave alone
WindowFrame ==
  UNCHANGED <<hapVars, scoreVars, parseVars, cardVars, scrollVars, configVars,
              events, pc, driver, resume_data, listVars, outcomeVars, loopVars>>

\* the worker threads that have not reached the end of run_automation_thread
Alive == {r \in 1..Len(workers) : workers[r] \in {"started", "running"}}

\* __init__ of the window: Start enabled, Stop disabled, no run
InitWindow ==
  /\ start_button = "normal" /\ stop_button = "disabled"
  /\ workers = [r \in 1..MaxRuns |-> "none"] /\ runs = 0
  /\ after_queue = 0 /\ handlers = 0
  /\ log_queue = <<>> /\ log_text = <<>> /\ emitted = <<>> /\ appended = <<>>
  /\ text = "" /\ profile = NoProfile /\ posting = NoPosting /\ corpus = NoCorpus
  /\ cards = NoCards /\ listings = NoListings /\ ScrollIdle
  /\ HapIdle /\ ScoreIdle /\ RunIdle

\* start_automation, the command of the Start button (a disabled button does
\* not call it): invalid inputs or a set flag return early; otherwise the
\* flag is set, the buttons are switched, the log display is cleared and a
\* worker thread is started
StartAutomation ==
  /\ start_button = "normal" /\ runs < MaxRuns
  /\ \E valid \in BOOLEAN :
       IF valid /\ ~is_running
         THEN /\ is_running' = TRUE
              /\ start_button' = "disabled" /\ stop_button' = "normal"
              /\ log_text' = <<>>
              /\ runs' = runs + 1
              /\ workers' = [workers EXCEPT ![runs + 1] = "started"]
         ELSE UNCHANGED <<is_running, start_button, stop_button, log_text, runs,
                          workers>>
  /\ UNCHANGED <<after_queue, handlers, log_queue, emitted, appended>>
  /\ WindowFrame

\* the lines stop_automation has written to the log display
StopLines == {i \in 1..Len(log_text) : log_text[i] = "Stopping automation..."}

\* variant of StopAutomationClick that gives the Start button back
StopAutomationClickEnablesStart ==
  /\ stop_button = "normal" /\ Cardinality(StopLines) < MaxStops
  /\ is_running' = FALSE
  /\ start_button' = "normal"
  /\ log_text' = Append(log_text, "Stopping automation...")
  /\ UNCHANGED <<stop_button, workers, runs, after_queue, handlers,
                 log_queue, emitted, appended>>
  /\ WindowFrame

\* stop_automation, the command of the Stop button: clears the flag and
\* writes a line to the log display; the buttons stay as they are
StopAutomationClick ==
  /\ stop_button = "normal" /\ Cardinality(StopLines) < MaxStops
  /\ is_running' = FALSE
  /\ log_text' = Append(log_text, "Stopping automation...")
  /\ UNCHANGED <<start_button, stop_button, workers, runs, after_queue, handlers,
                 log_queue, emitted, appended>>
  /\ WindowFrame

\* self.logger.addHandler(gui_handler) on the logger of the process, which
\* keeps the handlers of earlier instances
AddHandler(n) == n + 1

\* run_automation_thread up to the call of the run: the automation object is
\* created, which attaches its GUI handler; an exception is put on the queue
\* as an ERROR line and the thread goes to its `finally`
CreateAutomation ==
  /\ \E r \in 1..Len(workers) :
       /\ workers[r] = "started"
       /\ \E ok \in BOOLEAN :
            IF ok
              THEN /\ handlers' = AddHandler(handlers)
                   /\ workers' = [workers EXCEPT ![r] = "running"]
                   /\ UNCHANGED <<log_queue, after_queue>>
              ELSE /\ log_queue' = Append(log_queue, <<r, 0>>)
                   /\ after_queue' = after_queue + 1
                   /\ workers' = [workers EXCEPT ![r] = "ended"]
                   /\ UNCHANGED handlers
  /\ UNCHANGED <<is_running, start_button, stop_button, runs, log_text, emitted,
                 appended>>
  /\ WindowFrame

\* n copies of the message
Copies(msg, n) == [i \in 1..n |-> msg]

\* the records a run has emitted
EmittedBy(r) == Cardinality({i \in 1..Len(emitted) : emitted[i][1] = r})

\* the run logs a record: every GUI handler of the logger puts the formatted
\* message on the queue it was made with, the queue of the window
LogRecord ==
  /\ \E r \in 1..Len(workers) :
       /\ workers[r] = "running" /\ EmittedBy(r) < MaxRecords
       /\ LET msg == <<r, EmittedBy(r) + 1>>
          IN /\ emitted' = Append(emitted, msg)
             /\ log_queue' = log_queue \o Copies(msg, handlers)
  /\ UNCHANGED <<is_running, start_button, stop_button, workers, runs, after_queue,
                 handlers, log_text, appended>>
  /\ WindowFrame

\* the run returns; `finally` schedules automation_finished and the thread
\* ends
WorkerFinally ==
  /\ \E r \in 1..Len(workers) :
       /\ workers[r] = "running"
       /\ workers' = [workers EXCEPT ![r] = "ended"]
  /\ after_queue' = after_queue + 1
  /\ UNCHANGED <<is_running, start_button, stop_button, runs, handlers, log_queue,
                 log_text, emitted, appended>>
  /\ WindowFrame

\* automation_finished, run by the main loop: clears the flag and switches
\* the buttons back
AutomationFinished ==
  /\ after_queue > 0
  /\ after_queue' = after_queue - 1
  /\ is_running' = FALSE
  /\ start_button' = "normal" /\ stop_button' = "disabled"
  /\ UNCHANGED <<workers, runs, handlers, log_queue, log_text, emitted, appended>>
  /\ WindowFrame

\* check_log_queue, run by the timer: moves every queued message to the log
\* display
CheckLogQueue ==
  /\ log_queue # <<>>
  /\ log_text' = log_text \o log_queue
  /\ appended' = appended \o log_queue
  /\ log_queue' = <<>>
  /\ UNCHANGED <<is_running, start_button, stop_button, workers, runs, after_queue,
                 handlers, emitted>>
  /\ WindowFrame

NextWindow ==
  \/ StartAutomation
  \/ StopAutomationClick
  \/ CreateAutomation
  \/ LogRecord
  \/ WorkerFinally
  \/ AutomationFinished
  \/ CheckLogQueue

SpecWindow == InitWindow /\ [][NextWindow]_vars

(* ============================ the claims =============================== *)
OnlyNext(p) == p.submit = "absent" /\ p.next = "enabled" /\ p.review = "absent"
SubmitSucceeds(p) == p.submit = "enabled" /\ p.success
Times(c, k) == [j \in 1..k |-> c]

\* the wizard offers only Next at its first k steps and a succeeding Submit
\* at step k + 1
NextsThenSubmit(k) ==
  /\ Len(wizard) > k
  /\ \A j \in 1..k : OnlyNext(wizard[j])
  /\ SubmitSucceeds(wizard[k + 1])

\* C1: on a wizard with k < 5 Next-only steps (no Submit control on the page)
\* followed by a step whose Submit click shows the success indicator, the
\* call clicks Next k times, then Submit, and returns True after exactly
\* k + 1 iterations.
C1_NextsThenSubmitted ==
  \A k \in 0..(max_attempts - 1) :
    (hapState = "returned" /\ NextsThenSubmit(k)) =>
      /\ hapResult
      /\ iters = k + 1
      /\ clicks = Times("next", k) \o <<"submit">>

\* C2: for every page behaviour the call executes at most 5 iterations, every
\* iteration that stays in the loop has incremented attempt, a running call
\* can always take its next iteration, and a call that returned without
\* having located the success indicator returned False.
C2_TerminatesAbandoned ==
  /\ iters <= max_attempts
  /\ attempt <= max_attempts
  /\ hapState = "running" => (attempt = iters /\ attempt < max_attempts)
  /\ (hapState = "returned" /\ ~sawSuccess) => ~hapResult

\* C2 witness: a call that used up all 5 iterations and returned False
C2_Witness ==
  /\ wizard = <<>> /\ hapState = "returned"
  /\ iters = max_attempts /\ attempt = max_attempts /\ ~hapResult

\* C3: handle_application_process returns True only from an iteration in
\* which the success indicator was located, and applied_jobs grows only by
\* the listing in flight, after handle_application_process returned True.
C3_SubmittedOnEvidence ==
  [][/\ (hapState = "running" /\ hapState' = "returned" /\ hapResult')
          => sawSuccess'
     /\ (applied_jobs' # applied_jobs)
          => /\ pc = "hap" /\ hapState = "returned" /\ hapResult /\ sawSuccess
             /\ cur # 0
             /\ applied_jobs' = Append(applied_jobs, cur)]_vars

\* C3 witness: a listing was appended to applied_jobs
C3_Witness ==
  /\ pc = "sleep" /\ lastReturn = "true"
  /\ applied_jobs # <<>> /\ applied_jobs[Len(applied_jobs)] = cur

\* the outcome collections a listing is a member of
OutcomesOf(job) ==
  {name \in {"applied", "failed", "unsuitable"} :
     job \in Range(CASE name = "applied" -> applied_jobs
                     [] name = "failed" -> failed_jobs
                     [] name = "unsuitable" -> unsuitable_jobs)}

\* C4: at the end of an enhanced run that reached the application loop every
\* discovered listing with has_easy_apply = true is in exactly one of
\* applied_jobs, failed_jobs, unsuitable_jobs.
C4_EveryEasyListingHasOutcome ==
  (variant = "enhanced" /\ pc = "done" /\ easy_apply_jobs # <<>>) =>
    \A job \in 1..Len(all_jobs) :
      all_jobs[job].has_easy_apply => Cardinality(OutcomesOf(job)) = 1

NoDuplicates(seq) ==
  \A i, j \in 1..Len(seq) : i # j => seq[i] # seq[j]

\* C5: in every state of a run the collections applied_jobs, failed_jobs,
\* unsuitable_jobs and non_easy_apply_jobs are pairwise disjoint and none of
\* them holds a listing twice.
C5_CollectionsDisjoint ==
  LET sets == <<applied_jobs, failed_jobs, unsuitable_jobs, non_easy_apply_jobs>>
  IN /\ \A a, b \in 1..4 : a # b => Range(sets[a]) \cap Range(sets[b]) = {}
     /\ \A a \in 1..4 : NoDuplicates(sets[a])

\* C5 witness: a finished run with listings in three different collections
C5_Witness ==
  /\ pc = "done"
  /\ Cardinality({a \in 1..4 :
       <<applied_jobs, failed_jobs, unsuitable_jobs, non_easy_apply_jobs>>[a] # <<>>}) >= 3

\* C6: when apply_to_job returns False, the listing it worked on is in
\* failed_jobs.
C6_FailureRecorded ==
  (pc = "sleep" /\ lastReturn = "false") => cur \in Range(failed_jobs)

\* C7: no exception leaves apply_to_job, and the per-job loop is only ever
\* left with the list exhausted or the cap reached: a failed attempt does not
\* end the batch.
C7_BatchNeverAborted ==
  /\ ~escaped
  /\ (pc \in {"report", "finally", "done"} /\ loop_jobs # <<>>)
       => (idx = Len(loop_jobs) \/ CapHit)
  /\ (pc = "sleep" /\ lastReturn = "false") => ENABLED CountAndSleep

\* C7 witness: a finished run whose first attempt failed on an exception or
\* an abandoned wizard and whose loop went on through a second listing
C7_Witness ==
  /\ pc = "done" /\ Len(loop_jobs) >= 2 /\ idx = Len(loop_jobs)
  /\ failed_jobs # <<>> /\ failed_jobs[1] = loop_jobs[1]

\* C8: at the end of a run, of either tool, the number of listings in
\* applied_jobs is at most max(0, max_applications).
C8_CapHolds ==
  pc = "done" => Len(applied_jobs) <= Max(0, max_applications)

\* C9: when computing the match score fails, is_suitable_job returns
\* (False, 0.0, explanation) with the error text in the explanation, for
\* every min_score in [0, 1].
C9_UnscorableIsUnsuitable ==
  (Called /\ query.in.err # NoError) =>
    /\ ~verdict.is_suitable
    /\ verdict.match_score = 0
    /\ Contains(verdict.explanation, query.in.err)

\* C10: the verdict of is_suitable_job equals (returned score >= min_score).
C10_VerdictIsComparison ==
  Called => (verdict.is_suitable <=> (verdict.match_score >= query.min_score))

\* C10 witness: a call whose score equals the threshold and is suitable
C10_Witness ==
  /\ Called /\ query.in.err = NoError
  /\ verdict.match_score = query.min_score /\ verdict.match_score > 0
  /\ verdict.is_suitable

\* C11: the score is_suitable_job returns lies in [0, 1]; when the scoring
\* step succeeds it is 0.7 * similarity + 0.3 * boost clamped to [0, 1], and
\* when the scoring step fails it is 0.0.
C11_ScoreIsClampedWeightedSum ==
  Called =>
    /\ verdict.match_score \in Hundredths
    /\ query.in.err = NoError =>
         verdict.match_score =
           Max(0, Min(7 * query.in.sim + 3 * query.in.boost, 100))
    /\ query.in.err # NoError => verdict.match_score = 0

\* C11 witness: a call with full similarity and no skill boost scored 0.70
C11_Witness ==
  /\ Called /\ query.in.err = NoError
  /\ query.in.sim = 10 /\ query.in.boost = 0
  /\ verdict.match_score = 70

NoControls(p) ==
  /\ p.submit = "absent" /\ p.next = "absent" /\ p.review = "absent"
  /\ ~p.success /\ ~p.successLate

\* no step of the wizard shows a control or the success indicator
NeverAnyControl ==
  Len(wizard) = ScriptLen /\ \A j \in 1..ScriptLen : NoControls(wizard[j])

\* C16: on a wizard where no control is ever present and the success
\* indicator never shows, the call clicks nothing, executes exactly one
\* iteration and returns False.
C16_NoControlsAbandonedAtOnce ==
  NeverAnyControl =>
    /\ clicks = <<>>
    /\ iters <= 1
    /\ hapState = "returned" => (iters = 1 /\ ~hapResult)

\* C16 witness: the call on the wizard without controls has returned
C16_Witness ==
  /\ NeverAnyControl /\ hapState = "returned"
  /\ iters = 1 /\ clicks = <<>> /\ ~hapResult

\* the wizard offers only an enabled Next at every step up to past the cap
NextOnlyBeyondCap ==
  /\ Len(wizard) = ScriptLen
  /\ \A j \in 1..ScriptLen :
       OnlyNext(wizard[j]) /\ ~wizard[j].success /\ ~wizard[j].successLate

\* C17: on a wizard that offers only an enabled Next for 6 or more steps the
\* call clicks Next exactly 5 times and then returns False at the step cap.
C17_NextOnlyAbandonedAtCap ==
  (hapState = "returned" /\ NextOnlyBeyondCap) =>
    /\ ~hapResult
    /\ iters = max_attempts
    /\ clicks = Times("next", max_attempts)

\* C12: once Stop was requested in a run started from the window, the
\* orchestrator starts no further application attempt.
C12_NoAttemptAfterStop ==
  [][(frontend = "gui" /\ ~is_running) => ~(cur = 0 /\ cur' # 0)]_vars

\* the positions in the log of the run-level calls of one kind
Calls(name) == {i \in 1..Len(events) : events[i][1] = name}
Succeeded(name) == \E i \in Calls(name) : events[i][2]
Failed(name) == \E i \in Calls(name) : ~events[i][2]

\* the steps of a run that operate the driver
DriverOperation ==
  \/ Login \/ Search \/ GetAllJobListings \/ GetJobListings
  \/ AnalyzeAndCategorize \/ ApplyToJob \/ HandleIteration \/ ApplyToJobReturn

\* C13: on every exit path of a run after the driver was created, driver.quit
\* is called exactly once, and no operation on the driver follows it.
C13_DriverQuitExactlyOnce ==
  /\ Cardinality(Calls("quit")) <= 1
  /\ (driver = "quit") <=> (Calls("quit") # {})
  /\ pc = "done" => driver # "open"
  /\ driver = "quit" =>
       /\ pc = "done"
       /\ events[Len(events)] = <<"quit", TRUE>>
       /\ ~ENABLED DriverOperation

\* C13 witness: a run left on the exception of setup_driver, after the
\* driver was created, has quit it
C13_Witness ==
  /\ pc = "done" /\ driver = "quit"
  /\ events = <<(<<"setup_driver", FALSE>>), (<<"quit", TRUE>>)>>

\* no application attempt has been started in this run
NoAttempt ==
  /\ cur = 0 /\ idx = 0 /\ hapState = "idle"
  /\ applied_jobs = <<>> /\ failed_jobs = <<>> /\ unsuitable_jobs = <<>>

\* the login, search and discovery calls of the log, in order
Phases ==
  LET IsPhase(e) == e[1] \in {"login", "search", "discover"}
  IN SelectSeq(events, IsPhase)

\* C14: login is attempted exactly once per run; after a failed login there
\* is no search, discovery, scoring or application attempt; after a failed
\* search there is no discovery, scoring or application attempt; an
\* application attempt occurs only after login, search and discovery
\* succeeded, in this order.
C14_RunLevelFailuresFatal ==
  /\ Cardinality(Calls("login")) <= 1
  /\ (Succeeded("setup_driver") /\ pc # "login") => Cardinality(Calls("login")) = 1
  /\ Failed("login") =>
       /\ Calls("search") = {} /\ Calls("discover") = {} /\ Calls("categorize") = {}
       /\ NoAttempt
  /\ Failed("search") =>
       /\ Calls("discover") = {} /\ Calls("categorize") = {}
       /\ NoAttempt
  /\ ~NoAttempt =>
       Phases = <<(<<"login", TRUE>>), (<<"search", TRUE>>), (<<"discover", TRUE>>)>>

\* C14 witness: a finished run whose search failed after a successful login
C14_Witness ==
  /\ pc = "done" /\ Succeeded("login") /\ Failed("search")

\* C15: in every run in which the driver was initialised the report is
\* generated before the driver is quit, also when the run ends early on a
\* failed login or search.
C15_ReportBeforeRelease ==
  (pc = "done" /\ Succeeded("setup_driver")) =>
    \E i \in Calls("report") : \E j \in Calls("quit") : i < j

\* C18: a listing with has_easy_apply = false is never the listing
\* apply_to_job works on, never enters applied_jobs, failed_jobs or
\* unsuitable_jobs, and is in non_easy_apply_jobs from categorization to the
\* end of the run.
C18_NonEasyOnlyManualReview ==
  \A job \in 1..Len(all_jobs) :
    ~all_jobs[job].has_easy_apply =>
      /\ cur # job
      /\ OutcomesOf(job) = {}
      /\ job \notin Range(suitable_jobs)
      /\ pc \in {"loop", "hap", "sleep", "report", "finally", "done"}
           => job \in Range(non_easy_apply_jobs)

\* C18 witness: a finished run with a listing without Easy Apply and a
\* submitted application
C18_Witness ==
  /\ pc = "done" /\ applied_jobs # <<>>
  /\ \E job \in 1..Len(all_jobs) : ~all_jobs[job].has_easy_apply

\* C19: analyze_and_categorize_jobs partitions its input: the two lists
\* together hold every listing exactly once, a listing is in the first list
\* exactly when has_easy_apply is true, and the call leaves url (title,
\* company, location) and has_easy_apply of every listing as they were.
C19_CategorizePartitions ==
  [][(pc = "categorize" /\ pc' # "categorize") =>
       LET both == easy_apply_jobs' \o non_easy_apply_jobs'
           n == Len(all_jobs)
       IN /\ Len(both) = n /\ Range(both) = 1..n
          /\ Len(all_jobs') = n
          /\ \A i \in 1..n :
               /\ (i \in Range(easy_apply_jobs')) <=> all_jobs[i].has_easy_apply
               /\ all_jobs'[i].url = all_jobs[i].url
               /\ all_jobs'[i].has_easy_apply = all_jobs[i].has_easy_apply]_vars

\* C19 witness: a page of MaxJobs listings was split into two non-empty lists
C19_Witness ==
  /\ pc = "loop" /\ idx = 0 /\ Len(all_jobs) = MaxJobs
  /\ easy_apply_jobs # <<>> /\ non_easy_apply_jobs # <<>>
  /\ Len(easy_apply_jobs) + Len(non_easy_apply_jobs) = MaxJobs

\* with a resume: non-increasing match_score, equal scores in discovery
\* order; without: discovery order
Ordered(list) ==
  \A a, b \in 1..Len(list) :
    a < b =>
      IF resume_data
        THEN \/ all_jobs[list[a]].match_score > all_jobs[list[b]].match_score
             \/ /\ all_jobs[list[a]].match_score = all_jobs[list[b]].match_score
                /\ list[a] < list[b]
        ELSE list[a] < list[b]

\* C20: with a resume loaded each of the two lists is ordered by
\* non-increasing match_score with equal scores in discovery order; without a
\* resume each list is in discovery order.
C20_ListsOrdered ==
  Ordered(easy_apply_jobs) /\ Ordered(non_easy_apply_jobs)

\* C20 witness: three Easy Apply listings of which the first scored lowest
\* and the other two scored the same
C20_Witness ==
  /\ resume_data /\ easy_apply_jobs = <<2, 3, 1>>
  /\ all_jobs[2].match_score = all_jobs[3].match_score
  /\ all_jobs[2].match_score > all_jobs[1].match_score

\* C28: one step of handle_application_process clicks at most one control.
C28_OneClickPerStep ==
  [][Len(clicks') <= Len(clicks) + 1]_vars

\* the call on a whole script, step by step as HandleIteration takes them:
\* the controls clicked and the value returned
RECURSIVE RunScript(_, _, _, _)
RunScript(script, j, att, cl) ==
  LET o == LoopBody(script[j])
      a == IF o.inc THEN att + 1 ELSE att
  IN IF o.exit = "cont" /\ a < max_attempts
       THEN RunScript(script, j + 1, a, cl \o o.clicks)
       ELSE [clicks |-> cl \o o.clicks, result |-> (o.exit = "true")]

\* the other of "absent" and "disabled"
Swapped(ctl) ==
  CASE ctl = "absent" -> "disabled"
    [] ctl = "disabled" -> "absent"
    [] OTHER -> ctl

\* the scripts that differ from script in one control of one step, absent
\* exchanged for disabled
SwappedScripts(script) ==
  {[script EXCEPT ![j] = [script[j] EXCEPT ![c] = Swapped(script[j][c])]] :
     j \in 1..Len(script), c \in {"submit", "next", "review"}}

\* C29: exchanging "absent" and "disabled" for one control at one step of the
\* wizard changes neither the clicks of the call nor what it returns.
C29_DisabledSameAsAbsent ==
  (hapState = "returned" /\ Len(wizard) = ScriptLen) =>
    \A other \in SwappedScripts(wizard) :
      RunScript(other, 1, 0, <<>>) = [clicks |-> clicks, result |-> hapResult]

\* C30: a step that finds no enabled Submit, Next or Review (each absent or
\* disabled) ends the call in that step, with True exactly when the success
\* indicator is present.
C30_NoControlStepTerminates ==
  [][(/\ hapState = "running" /\ Len(wizard) = ScriptLen
      /\ wizard[iters + 1].submit \in {"absent", "disabled"}
      /\ wizard[iters + 1].next \in {"absent", "disabled"}
      /\ wizard[iters + 1].review \in {"absent", "disabled"})
       => /\ hapState' = "returned"
          /\ hapResult' = wizard[iters + 1].successLate]_vars

\* C22: the fixed delay runs after every call of apply_to_job, whatever it
\* returned, before the loop makes its next call: outside a call the loop has
\* slept once per call made, and inside a call once per earlier call.
C22_SleepBetweenAttempts ==
  /\ cur = 0 => sleeps = apply_calls
  /\ cur # 0 => sleeps = apply_calls - 1

\* C22 witness: a second call of apply_to_job is in progress after a first
\* one that returned False
C22_Witness ==
  /\ cur # 0 /\ apply_calls = 2 /\ sleeps = 1
  /\ applications_sent = 0

\* a keyword of the level occurs in the lower-cased text
LevelHit(level) ==
  LET text_lower == Lower(text) IN
    \E i \in 1..Len(experience_keywords[level]) :
      In(experience_keywords[level][i], text_lower)

\* C23: extract_experience_level returns the first of junior, mid, senior
\* that has a keyword occurring in the text, wherever the keywords occur,
\* and "unknown" exactly when no keyword of any level occurs.
C23_FirstLevelInFixedOrder ==
  Analysed =>
    /\ profile.experience_level =
         (IF LevelHit("junior") THEN "junior"
          ELSE IF LevelHit("mid") THEN "mid"
          ELSE IF LevelHit("senior") THEN "senior"
          ELSE "unknown")
    /\ (profile.experience_level = "unknown")
         <=> ~(LevelHit("junior") \/ LevelHit("mid") \/ LevelHit("senior"))

\* C23 witness: the text names senior before junior and the level is junior
C23_Witness ==
  /\ Analysed /\ text = "Senior junior "
  /\ profile.experience_level = "junior"

\* the numbers captured by any of the three year patterns in the text
CapturedYears ==
  LET t == Lower(text)
      Groups(p) == FindAll(p, t, 1)
  IN UNION {{ToInt(Groups(p)[i]) : i \in 1..Len(Groups(p))} : p \in 1..3}

\* C24: extract_years_experience returns a non-negative integer: the largest
\* of all numbers captured by any of the year patterns anywhere in the text
\* (not the first), and 0 when no pattern matches.
C24_YearsIsMaximum ==
  Analysed =>
    /\ profile.years_experience \in Nat
    /\ CapturedYears = {} => profile.years_experience = 0
    /\ CapturedYears # {} =>
         /\ profile.years_experience \in CapturedYears
         /\ \A y \in CapturedYears : y <= profile.years_experience

\* C24 witness: "3 years experience ... 7+ years in" gives 7
C24_Witness ==
  /\ Analysed /\ text = "3 years experience 7+ years in "
  /\ CapturedYears = {3, 7}
  /\ profile.years_experience = 7

\* the position of a token in a catalog list
PositionIn(list, token) == CHOOSE i \in 1..Len(list) : list[i] = token

\* C25: for every category the extracted list has no duplicates, follows the
\* order of the catalog, and holds a catalog token exactly when the token
\* occurs as a substring of the lower-cased text.
C25_SkillsAreCatalogSubsequence ==
  Analysed =>
    \A c \in DOMAIN tech_skills :
      LET list == profile.skills[c]
          catalog == tech_skills[c]
          text_lower == Lower(text)
      IN /\ NoDuplicates(list)
         /\ Range(list) \subseteq Range(catalog)
         /\ \A a, b \in 1..Len(list) :
              a < b => PositionIn(catalog, list[a]) < PositionIn(catalog, list[b])
         /\ \A i \in 1..Len(catalog) :
              (catalog[i] \in Range(list)) <=> In(catalog[i], text_lower)

\* C25 witness: "go" is extracted from a text that says "Golang-based", after
\* "python"
C25_Witness ==
  /\ Analysed /\ text = "Golang-based Python "
  /\ profile.skills["programming"] = <<"python", "go">>

\* C26: when the resume has at least one extracted skill and every extracted
\* skill occurs, case-insensitively, in job title + " " + job description,
\* is_suitable_job finds the job suitable at the default threshold 0.3,
\* whatever the text similarity is.
C26_AllSkillsMatchedIsSuitable ==
  (/\ Analysed /\ Called
   /\ AllSkills(profile) # <<>>
   /\ LET job_text == Lower(posting.title \o " " \o posting.description) IN
        \A i \in 1..Len(AllSkills(profile)) :
          In(Lower(AllSkills(profile)[i]), job_text))
    => verdict.is_suitable

\* C26 witness: the Python/SQL resume against the Python Developer job, at
\* similarity 0
C26_Witness ==
  /\ Analysed /\ Called /\ text = "Python sql "
  /\ posting.title = "Python Developer" /\ Len(posting.description) > 20
  /\ query.in.sim = 0 /\ query.in.boost = 10
  /\ verdict.is_suitable /\ verdict.match_score = DefaultMinScore

\* the numbers of the cards whose link and title could be read
ReadableCards ==
  LET Readable(i) == cards.job_cards[i].link = "ok"
  IN SelectSeq(Ids(Len(cards.job_cards)), Readable)

\* C21: get_all_job_listings returns, in card order, one listing for every
\* card whose link and title could be read; a card whose extraction raises is
\* left out and changes no other listing; a company or location that cannot
\* be located becomes "Unknown Company" / "Unknown Location".
C21_PerCardFailuresIsolated ==
  (listings.returned /\ cards.scroll = "ok") =>
    /\ Len(listings.jobs) = Len(ReadableCards)
    /\ \A k \in 1..Len(ReadableCards) :
         LET card == cards.job_cards[ReadableCards[k]]
             listing == listings.jobs[k]
         IN /\ listing.url = ReadableCards[k]
            /\ listing.has_easy_apply = card.easy
            /\ listing.company =
                 (IF card.company = "" THEN "Unknown Company" ELSE card.company)
            /\ listing.location =
                 (IF card.location = "" THEN "Unknown Location" ELSE card.location)

\* C21 witness: of two cards the first could not be read and the second
\* shows no company: one listing, for the second card, with the sentinel
C21_Witness ==
  /\ listings.returned /\ cards.scroll = "ok" /\ Len(cards.job_cards) = 2
  /\ cards.job_cards[1].link = "error" /\ cards.job_cards[2].link = "ok"
  /\ cards.job_cards[2].company = ""
  /\ Len(listings.jobs) = 1 /\ listings.jobs[1].url = 2
  /\ listings.jobs[1].company = "Unknown Company"

\* C27: when the text extracted from the resume is empty or all whitespace,
\* parse_resume raises and gives no profile, the orchestrator is left with
\* resume_data = None, and the run goes on to set up the browser.
C27_BlankResumeLeavesNoProfile ==
  [][(pc = "start" /\ variant = "enhanced" /\ resume_path /\ Blank(text))
       => (resume_data' = FALSE /\ pc' = "setup")]_vars

\* C27 witness: a run whose resume held only whitespace has opened the
\* browser and holds no profile
C27_Witness ==
  /\ variant = "enhanced" /\ resume_path /\ text = " \n"
  /\ ~resume_data /\ driver = "open" /\ pc \notin {"start", "setup"}

\* the skill tokens of the profile, each with its category and place
SkillTokens ==
  {<<c, i>> \in (DOMAIN profile.skills) \X (1..20) : i <= Len(profile.skills[c])}

\* the skill tokens that occur in the lower-cased title + " " + description
TokensInJob ==
  LET job_text == Lower(posting.title \o " " \o posting.description)
  IN {tok \in SkillTokens : In(Lower(profile.skills[tok[1]][tok[2]]), job_text)}

\* C31: calculate_skill_match_boost is matched / total over the skill tokens
\* of all categories of the profile, matched counting the tokens that occur
\* in lower-cased title + " " + description; it is 0 when the profile has no
\* skill token, and always within [0, 1] (here 0..10 tenths, rounded down).
C31_BoostIsMatchedOverTotal ==
  (Analysed /\ Called) =>
    LET total == Cardinality(SkillTokens)
        matched == Cardinality(TokensInJob)
    IN /\ query.in.boost \in 0..10
       /\ total = 0 => query.in.boost = 0
       /\ total # 0 => query.in.boost = (10 * matched) \div total

\* C31 witness: of the two skills python and go of the resume the job
\* "Go developer" names one: half
C31_Witness ==
  /\ Analysed /\ Called /\ text = "Golang-based Python "
  /\ posting.title = "Go developer"
  /\ Cardinality(SkillTokens) = 2 /\ Cardinality(TokensInJob) = 1
  /\ query.in.boost = 5

\* C32: the second document of the corpus of calculate_job_match_score
\* holds the job title together with the job description, so that the title
\* takes part in the text similarity.
C32_TitleInSecondDocument ==
  (Analysed /\ Called) =>
    /\ Len(corpus) = 2
    /\ In(Lower(posting.title), Lower(corpus[2]))

\* C33: when no resume profile is loaded, analyze_and_categorize_jobs calls
\* get_job_description for no listing and leaves description, match_score,
\* is_suitable and match_explanation of every listing at "", 0.0, False, "".
C33_NoProfileNoFetchNoScore ==
  [][(pc = "categorize" /\ ~resume_data) =>
       /\ description_gets' = description_gets
       /\ all_jobs' = all_jobs
       /\ \A i \in 1..Len(all_jobs') :
            /\ all_jobs'[i].description = ""
            /\ all_jobs'[i].match_score = 0
            /\ all_jobs'[i].is_suitable = FALSE
            /\ all_jobs'[i].match_explanation = <<>>]_vars

\* C33 witness: three listings categorized without a profile, none visited
C33_Witness ==
  /\ variant = "enhanced" /\ ~resume_data /\ pc = "loop"
  /\ Len(all_jobs) = MaxJobs /\ Len(easy_apply_jobs) >= 1
  /\ description_gets = <<>>
  /\ \A i \in 1..Len(all_jobs) : all_jobs[i].description = ""

\* C34: scroll_to_load_jobs scrolls at least once and stops at the first
\* re-measurement at which the height has not increased over the previous
\* measurement, be it equal or smaller.
C34_StopsWhenHeightNotIncreased ==
  [][(scrollState = "measured" /\ Len(heights') = Len(heights) + 1) =>
       /\ scrolls' >= 1
       /\ (heights'[Len(heights')] <= heights[Len(heights)])
            => scrollState' = "returned"]_vars

\* a finished run of the enhanced tool that entered the application loop
LoopWasRun ==
  /\ variant = "enhanced" /\ pc = "done"
  /\ Calls("categorize") # {} /\ easy_apply_jobs # <<>>

\* the application loop ended the way the base-class loop ends, and the
\* report followed
LoopEndedAsBase ==
  /\ idx = Len(loop_jobs) \/ applications_sent >= max_applications
  /\ Calls("report") # {}

\* C35: the window's override of apply_to_easy_apply_jobs behaves as the
\* base-class loop: it goes through the listings until the list is exhausted
\* or the cap is reached and returns normally, so that the report is
\* generated.
C35_GuiLoopAsBaseLoop ==
  (frontend = "gui" /\ LoopWasRun) => LoopEndedAsBase

\* the same statement for the base-class loop of a run from the command line
BaseLoopEndsNormally ==
  (frontend = "cli" /\ LoopWasRun) => LoopEndedAsBase

\* C36: in a run for which a resume path was configured, every listing an
\* application is attempted on has is_suitable = true, whatever the outcome
\* of parsing the resume, a failed parse included.
C36_OnlySuitableAttemptedWithResumePath ==
  (variant = "enhanced" /\ resume_path /\ cur # 0) => all_jobs[cur].is_suitable

\* C37: without a loaded profile no listing is skipped as unsuitable, though
\* every listing has is_suitable = False: unsuitable_jobs stays empty, and
\* the Easy Apply listings are attempted in discovery order until the list is
\* exhausted or the count of submitted applications reaches the cap.
C37_NoProfileNothingSkipped ==
  (variant = "enhanced" /\ frontend = "cli" /\ ~resume_data /\ pc # "start") =>
    /\ unsuitable_jobs = <<>>
    /\ \A i \in 1..Len(all_jobs) : ~all_jobs[i].is_suitable
    /\ cur # 0 => cur = loop_jobs[idx + 1]
    /\ \A i \in 1..(Len(loop_jobs) - 1) : loop_jobs[i] < loop_jobs[i + 1]
    /\ (pc = "report" /\ loop_jobs # <<>>) =>
         (idx = Len(loop_jobs) \/ applications_sent >= max_applications)

\* C37 witness: a run whose resume could not be parsed has attempted both of
\* its Easy Apply listings, first the earlier one, and skipped none
C37_Witness ==
  /\ variant = "enhanced" /\ frontend = "cli" /\ resume_path /\ ~resume_data
  /\ pc = "report" /\ loop_jobs = <<1, 3>> /\ apply_calls = 2
  /\ failed_jobs = <<1>> /\ applied_jobs = <<3>> /\ unsuitable_jobs = <<>>

\* C38: at most one worker thread of a window is alive at any time, whatever
\* the order of Start clicks, Stop clicks and worker completion, and the
\* Start button is enabled only when no worker is alive.
C38_AtMostOneWorker ==
  /\ Cardinality(Alive) <= 1
  /\ start_button = "normal" => Alive = {}

\* C38 witness: the second run of the window is in flight, Stop was pressed
\* during it, and the Start button is still disabled
C38_Witness ==
  /\ runs = 2 /\ Alive = {2} /\ ~is_running
  /\ stop_button = "normal" /\ start_button = "disabled"

\* the messages of log records among msgs (an ERROR line put by the thread
\* itself has number 0)
Records(msgs) == LET IsRecord(m) == m[2] # 0 IN SelectSeq(msgs, IsRecord)

\* C39: every log record a worker emits is put on the queue of the window
\* exactly once and appended to the log display exactly once, in emission
\* order, in the first run and in every later run of the same window.
C39_EachRecordOnce ==
  Records(appended \o log_queue) = emitted

====
